---- MODULE Spec2Model ----
(***************************************************************************)
(* Model of src/app.py: the knee-osteoarthritis frailty risk form.         *)
(*                                                                         *)
(* Numbers.  Every probability and contribution is an exact rational with  *)
(* denominator SCALE = 100 * 71 * 26 * 9 * 10, held as its integer         *)
(* numerator ("units").  0.01 is SCALE \div 100 units.  The sliders with   *)
(* step 0.1 (bmi, bl_crp) are held in tenths, age and bl_hgb in ones.      *)
(* The Python code works in binary floating point; its rounding error      *)
(* (about 1e-16) is below one unit (about 6e-8) and is not modelled.       *)
(***************************************************************************)
EXTENDS Integers, Sequences, FiniteSets, TLC

VARIABLES widgets, view, probability, risk

vars == <<widgets, view, probability, risk>>

----------------------------------------------------------------------------
(* Bounds of the model: how finely each slider's range is sampled, and how *)
(* finely [0, 1] is sampled for the classifier.                            *)

NAge == 2
NBmi == 2
NCrp == 1
NHgb == 1
ProbSteps == 100

----------------------------------------------------------------------------
(* Fixed-point scale and the program's numeric literals.                   *)

SCALE == 100 * 71 * 26 * 9 * 10

\* one hundredth (0.01) in units
Cent == SCALE \div 100

AGE_MIN == 40
AGE_MAX == 110
AGE_DEFAULT == 40
BMI_MIN == 150
BMI_MAX == 400
BMI_DEFAULT == 185
CRP_MIN == 0
CRP_MAX == 300
CRP_DEFAULT == 0
HGB_MIN == 50
HGB_MAX == 250
HGB_DEFAULT == 120

\* thresholds of get_risk_recommendation and the clamp of the scorer
HIGH_THRESHOLD == 70 * Cent
MEDIUM_THRESHOLD == 45 * Cent
CLAMP_LO == 1 * Cent
CLAMP_HI == 99 * Cent

----------------------------------------------------------------------------
(* Python helpers: an insertion-ordered dict is a sequence of <<key,       *)
(* value>> pairs.                                                          *)

\* list(d.keys())
keys(d) == [i \in 1..Len(d) |-> d[i][1]]

\* list.index(x): position of the first occurrence
index(list, x) == CHOOSE i \in 1..Len(list) :
                     /\ list[i] = x
                     /\ \A j \in 1..(i - 1) : list[j] # x

\* d[k]
get(d, k) == d[index(keys(d), k)][2]

RECURSIVE sum(_)
\* numpy.ndarray.sum
sum(a) == IF a = <<>> THEN 0 ELSE a[1] + sum(Tail(a))

max(a, b) == IF a >= b THEN a ELSE b

min(a, b) == IF a <= b THEN a ELSE b

----------------------------------------------------------------------------
(* The form: widget domains and defaults.                                  *)

Grid(lo, hi, n) == {lo + ((hi - lo) * k) \div n : k \in 0..n}

AgeValues == Grid(AGE_MIN, AGE_MAX, NAge) \cup {AGE_DEFAULT}
BmiValues == Grid(BMI_MIN, BMI_MAX, NBmi) \cup {BMI_DEFAULT}
CrpValues == Grid(CRP_MIN, CRP_MAX, NCrp) \cup {CRP_DEFAULT}
HgbValues == Grid(HGB_MIN, HGB_MAX, NHgb) \cup {HGB_DEFAULT}

assessment_form ==
    [age : AgeValues, gender : {0, 1}, bmi : BmiValues, smoke : {0, 1},
     ftsst : {0, 1}, adl : {0, 1}, pa : {0, 1, 2}, complications : {0, 1, 2},
     fall : {0, 1}, bl_crp : CrpValues, bl_hgb : HgbValues]

form_defaults ==
    [age |-> AGE_DEFAULT, gender |-> 0, bmi |-> BMI_DEFAULT, smoke |-> 0,
     ftsst |-> 0, adl |-> 0, pa |-> 0, complications |-> 0, fall |-> 0,
     bl_crp |-> CRP_DEFAULT, bl_hgb |-> HGB_DEFAULT]

----------------------------------------------------------------------------
(* calculate_shap_values                                                   *)

feature_display_names(f) ==
    CASE f = "FTSST" -> "FTSST"
      [] f = "Complications" -> "Complications"
      [] f = "fall" -> "History of falls"
      [] f = "bl_crp" -> "CRP"
      [] f = "PA" -> "PA"
      [] f = "bl_hgb" -> "HGB"
      [] f = "smoke" -> "Smoke"
      [] f = "gender" -> "Gender"
      [] f = "age" -> "Age"
      [] f = "bmi" -> "BMI"
      [] f = "ADL" -> "ADL"

\* mutation: the reference age left out, 0.08 * age
shap_age_unnormalised(sample_data) == 8 * get(sample_data, "age") * Cent

\* mutation: the ratio inverted, 0.08 * (71 / age)
shap_age_inverted(sample_data) == (8 * Cent * 71) \div get(sample_data, "age")

\* 0.08 * (age / 71)
shap_age(sample_data) == 8 * get(sample_data, "age") * (Cent \div 71)

\* 0.06 * FTSST
shap_FTSST(sample_data) == 6 * get(sample_data, "FTSST") * Cent

\* mutation: the reference of age used for bmi, 0.05 * (bmi / 71)
shap_bmi_wrong_ref(sample_data) == 5 * get(sample_data, "bmi") * (Cent \div (71 * 10))

\* 0.05 * (bmi / 26), bmi in tenths
shap_bmi(sample_data) == 5 * get(sample_data, "bmi") * (Cent \div (26 * 10))

\* mutation: a misplaced decimal point, 0.4 * Complications
shap_Complications_tenfold(sample_data) == 40 * get(sample_data, "Complications") * Cent

\* 0.04 * Complications
shap_Complications(sample_data) == 4 * get(sample_data, "Complications") * Cent

\* 0.03 * fall
shap_fall(sample_data) == 3 * get(sample_data, "fall") * Cent

\* 0.02 * ADL
shap_ADL(sample_data) == 2 * get(sample_data, "ADL") * Cent

\* 0.01 * (bl_crp / 9), bl_crp in tenths
shap_bl_crp(sample_data) == 1 * get(sample_data, "bl_crp") * (Cent \div (9 * 10))

\* 0.04 * gender
shap_gender(sample_data) == 4 * get(sample_data, "gender") * Cent

\* mutation: -0.02 * PA
shap_PA_direct(sample_data) == (0 - 2) * get(sample_data, "PA") * Cent

\* -0.02 * (2 - PA)
shap_PA(sample_data) == (0 - 2) * (2 - get(sample_data, "PA")) * Cent

\* mutation: -0.03 * smoke
shap_smoke_direct(sample_data) == (0 - 3) * get(sample_data, "smoke") * Cent

\* -0.03 * (1 - smoke)
shap_smoke(sample_data) == (0 - 3) * (1 - get(sample_data, "smoke")) * Cent

\* mutation: the value normalised like the other continuous fields,
\* -0.01 * (bl_hgb / 120)
shap_bl_hgb_normalised(sample_data) == 0 - (get(sample_data, "bl_hgb") * Cent) \div 120

\* -0.01
shap_bl_hgb(sample_data) == (0 - 1) * Cent

base_value == 35 * Cent

\* mutation: the bounds written in percent, max(1, min(99, current_value))
clamp_percent(current_value) == max(1 * SCALE, min(99 * SCALE, current_value))

\* max(0.01, min(0.99, current_value))
clamp(current_value) == max(CLAMP_LO, min(CLAMP_HI, current_value))

calculate_shap_values(sample_data) ==
    LET features == keys(sample_data)
        feature_names == [i \in 1..Len(features) |->
                            feature_display_names(features[i])]
        s0 == [i \in 1..Len(features) |-> 0]
        s1 == [s0 EXCEPT ![index(features, "age")] = shap_age(sample_data)]
        s2 == [s1 EXCEPT ![index(features, "FTSST")] = shap_FTSST(sample_data)]
        s3 == [s2 EXCEPT ![index(features, "bmi")] = shap_bmi(sample_data)]
        s4 == [s3 EXCEPT ![index(features, "Complications")] =
                            shap_Complications(sample_data)]
        s5 == [s4 EXCEPT ![index(features, "fall")] = shap_fall(sample_data)]
        s6 == [s5 EXCEPT ![index(features, "ADL")] = shap_ADL(sample_data)]
        s7 == [s6 EXCEPT ![index(features, "bl_crp")] = shap_bl_crp(sample_data)]
        s8 == [s7 EXCEPT ![index(features, "gender")] = shap_gender(sample_data)]
        s9 == [s8 EXCEPT ![index(features, "PA")] = shap_PA(sample_data)]
        s10 == [s9 EXCEPT ![index(features, "smoke")] = shap_smoke(sample_data)]
        shap_values == [s10 EXCEPT ![index(features, "bl_hgb")] =
                                      shap_bl_hgb(sample_data)]
        current_value == clamp(base_value + sum(shap_values))
    IN  [base_value |-> base_value,
         current_value |-> current_value,
         shap_values |-> shap_values,
         feature_names |-> feature_names,
         features |-> features]

----------------------------------------------------------------------------
(* create_shap_force_plot                                                  *)

\* shap.force_plot: the diagram starts at the base value, carries one
\* labelled arrow per contribution and ends at base value plus their sum.
force_plot(base, shap_values, feature_names) ==
    [base_value |-> base,
     shap_values |-> shap_values,
     feature_names |-> feature_names,
     out_value |-> base + sum(shap_values)]

create_shap_force_plot(base, shap_values, sample_data) ==
    LET features == keys(sample_data)
        \* f"{display_name} = {value}" as the pair of its two parts
        feature_display == [i \in 1..Len(features) |->
                              <<feature_display_names(features[i]),
                                get(sample_data, features[i])>>]
    IN  force_plot(base, shap_values, feature_display)

----------------------------------------------------------------------------
(* get_risk_recommendation                                                 *)

\* mutation: the thresholds compared with >=
get_risk_recommendation_inclusive(p) ==
    IF p >= HIGH_THRESHOLD
      THEN <<"high", "High risk: immediate clinical intervention recommended">>
      ELSE IF p >= MEDIUM_THRESHOLD
        THEN <<"medium", "Medium risk: It is recommended to regularly monitor">>
        ELSE <<"low", "Low risk: Recommended for routine health management">>

get_risk_recommendation(p) ==
    IF p > HIGH_THRESHOLD
      THEN <<"high", "High risk: immediate clinical intervention recommended">>
      ELSE IF p > MEDIUM_THRESHOLD
        THEN <<"medium", "Medium risk: It is recommended to regularly monitor">>
        ELSE <<"low", "Low risk: Recommended for routine health management">>

----------------------------------------------------------------------------
(* The submit handler ("if submit_button:").                               *)

make_sample_data(w) ==
    << <<"FTSST", w.ftsst>>,
       <<"Complications", w.complications>>,
       <<"fall", w.fall>>,
       <<"bl_crp", w.bl_crp>>,
       <<"PA", w.pa>>,
       <<"bl_hgb", w.bl_hgb>>,
       <<"smoke", w.smoke>>,
       <<"gender", w.gender>>,
       <<"age", w.age>>,
       <<"bmi", w.bmi>>,
       <<"ADL", w.adl>> >>

submit_handler(w) ==
    LET sample_data == make_sample_data(w)
        r == calculate_shap_values(sample_data)
        rec == get_risk_recommendation(r.current_value)
    IN  [shown |-> TRUE,
         sample_data |-> sample_data,
         base_val |-> r.base_value,
         current_val |-> r.current_value,
         shap_vals |-> r.shap_values,
         feature_names |-> r.feature_names,
         features |-> r.features,
         risk_level |-> rec[1],
         recommendation |-> rec[2],
         shap_image |-> create_shap_force_plot(r.base_value, r.shap_values,
                                               sample_data)]

\* the page before any submission: only the form is shown
NoView == [shown |-> FALSE]

----------------------------------------------------------------------------
(* Specification of the form: the user has set the widgets to any values   *)
(* of their domains and presses Predict.                                   *)

Init ==
    /\ widgets \in assessment_form
    /\ view = NoView
    /\ probability = 0
    /\ risk = "none"

Submit ==
    /\ view' = submit_handler(widgets)
    /\ UNCHANGED <<widgets, probability, risk>>

Next == Submit

Spec == Init /\ [][Next]_vars

----------------------------------------------------------------------------
(* Specification of the classifier alone, applied to probabilities that    *)
(* include both thresholds and their neighbours one unit away.             *)

ProbValues ==
    Grid(0, SCALE, ProbSteps)
      \cup {HIGH_THRESHOLD - 1, HIGH_THRESHOLD, HIGH_THRESHOLD + 1}
      \cup {MEDIUM_THRESHOLD - 1, MEDIUM_THRESHOLD, MEDIUM_THRESHOLD + 1}
      \cup {CLAMP_LO, CLAMP_HI}

InitClassify ==
    /\ widgets = form_defaults
    /\ view = NoView
    /\ probability \in ProbValues
    /\ risk = "none"

Classify ==
    /\ risk' = get_risk_recommendation(probability)[1]
    /\ UNCHANGED <<widgets, view, probability>>

NextClassify == Classify

SpecClassify == InitClassify /\ [][NextClassify]_vars

----------------------------------------------------------------------------
(* Vocabulary of the properties.                                           *)

Abs(x) == IF x < 0 THEN 0 - x ELSE x

\* 1e-6 in units (rounded down)
Tol == SCALE \div 1000000

\* the record d with field k set to v, every other field as in d
WithField(d, k, v) == [i \in 1..Len(d) |-> IF d[i][1] = k THEN <<k, v>> ELSE d[i]]

ProbabilityOf(d) == calculate_shap_values(d).current_value

FieldNames ==
    {"age", "gender", "bmi", "smoke", "FTSST", "ADL", "PA", "Complications",
     "fall", "bl_crp", "bl_hgb"}

FieldValues(f) ==
    CASE f = "age" -> AgeValues
      [] f = "bmi" -> BmiValues
      [] f = "bl_crp" -> CrpValues
      [] f = "bl_hgb" -> HgbValues
      [] f \in {"PA", "Complications"} -> {0, 1, 2}
      [] OTHER -> {0, 1}

\* the table of section 4.1 of the specification, written from the table
Contribution(f, d) ==
    CASE f = "age" -> 8 * get(d, "age") * (SCALE \div (100 * 71))
      [] f = "FTSST" -> 6 * Cent * get(d, "FTSST")
      [] f = "bmi" -> 5 * get(d, "bmi") * (SCALE \div (10 * 100 * 26))
      [] f = "Complications" -> 4 * Cent * get(d, "Complications")
      [] f = "fall" -> 3 * Cent * get(d, "fall")
      [] f = "ADL" -> 2 * Cent * get(d, "ADL")
      [] f = "bl_crp" -> get(d, "bl_crp") * (SCALE \div (10 * 100 * 9))
      [] f = "gender" -> 4 * Cent * get(d, "gender")
      [] f = "PA" -> 0 - 2 * Cent * (2 - get(d, "PA"))
      [] f = "smoke" -> 0 - 3 * Cent * (1 - get(d, "smoke"))
      [] f = "bl_hgb" -> 0 - Cent

RECURSIVE SumOver(_, _)
SumOver(S, d) ==
    IF S = {} THEN 0
    ELSE LET f == CHOOSE x \in S : TRUE
         IN  Contribution(f, d) + SumOver(S \ {f}, d)

Unclamped(d) == 35 * Cent + SumOver(FieldNames, d)

DefaultRecord == make_sample_data(form_defaults)

MaxRiskRecord ==
    make_sample_data(
      [age |-> 110, gender |-> 1, bmi |-> 400, smoke |-> 1, ftsst |-> 1,
       adl |-> 1, pa |-> 2, complications |-> 2, fall |-> 1, bl_crp |-> 300,
       bl_hgb |-> 50])

----------------------------------------------------------------------------
(* Properties.                                                             *)

\* C1: for every in-domain record the probability the scorer returns lies
\* in [0.01, 0.99].
C1_ProbabilityInRange ==
    view.shown =>
        /\ view.current_val >= 1 * Cent
        /\ view.current_val <= 99 * Cent

C1_Witness ==
    /\ view.shown
    /\ get(view.sample_data, "age") = AGE_MAX
    /\ view.current_val > 50 * Cent

\* C2: the scorer returns base 0.35, at the position of each field in the
\* record's key order the contribution given by that field's formula, and
\* the probability clamp(0.35 + sum of contributions, 0.01, 0.99); base
\* plus the sum of the contributions is the unclamped prediction.
C2_ScorerFormulas ==
    view.shown =>
        LET d == view.sample_data
        IN  /\ view.base_val = 35 * Cent
            /\ view.features = keys(d)
            /\ {view.features[i] : i \in 1..Len(view.features)} = FieldNames
            /\ Len(view.shap_vals) = 11
            /\ \A i \in 1..11 :
                 view.shap_vals[i] = Contribution(view.features[i], d)
            /\ view.base_val + sum(view.shap_vals) = Unclamped(d)
            /\ view.current_val =
                 (IF Unclamped(d) < 1 * Cent THEN 1 * Cent
                  ELSE IF Unclamped(d) > 99 * Cent THEN 99 * Cent
                  ELSE Unclamped(d))

C2_Witness ==
    /\ view.shown
    /\ \A i \in 1..11 : view.shap_vals[i] # 0
    /\ get(view.sample_data, "bl_crp") = CRP_MAX

\* C3: the classifier maps every probability to exactly one tier with
\* strict thresholds: high iff p > 0.7, medium iff 0.45 < p <= 0.7, low iff
\* p <= 0.45; so 0.70 is medium, anything just above 0.70 is high and 0.45
\* is low.
C3_TierThresholds ==
    risk # "none" =>
        /\ risk \in {"high", "medium", "low"}
        /\ (risk = "high") <=> (probability > 70 * Cent)
        /\ (risk = "medium") <=>
             (probability > 45 * Cent /\ probability <= 70 * Cent)
        /\ (risk = "low") <=> (probability <= 45 * Cent)

C3_Witness ==
    /\ probability = 70 * Cent
    /\ risk = "medium"

\* C4: raising one of age, FTSST, bmi, Complications, fall, ADL, bl_crp or
\* gender, every other field held fixed, never lowers the probability.
C4_MonotoneIncreasing ==
    view.shown =>
        \A f \in {"age", "FTSST", "bmi", "Complications", "fall", "ADL",
                  "bl_crp", "gender"} :
          \A v \in FieldValues(f) :
            v >= get(view.sample_data, f) =>
              ProbabilityOf(WithField(view.sample_data, f, v))
                >= view.current_val

C4_Witness ==
    /\ view.shown
    /\ get(view.sample_data, "age") = AGE_MIN
    /\ ProbabilityOf(WithField(view.sample_data, "age", AGE_MAX))
         > view.current_val

\* C5 as stated: of two records that differ only in PA, the one with the
\* larger PA has a probability less than or equal to the other's.
C5_Original ==
    view.shown =>
        \A v \in FieldValues("PA") :
          v >= get(view.sample_data, "PA") =>
            ProbabilityOf(WithField(view.sample_data, "PA", v))
              <= view.current_val

\* C5 as amended: of two records that differ only in PA, the one with the
\* larger PA has a probability greater than or equal to the other's:
\* raising PA, every other field held fixed, never lowers the probability.
C5_MonotoneInPA ==
    view.shown =>
        \A v \in FieldValues("PA") :
          v >= get(view.sample_data, "PA") =>
            ProbabilityOf(WithField(view.sample_data, "PA", v))
              >= view.current_val

C5_Witness ==
    /\ view.shown
    /\ get(view.sample_data, "PA") = 0
    /\ ProbabilityOf(WithField(view.sample_data, "PA", 2)) > view.current_val

\* C6: of two records that differ only in smoke, the one with smoke = 0 has
\* a probability less than or equal to that of the one with smoke = 1.
C6_MonotoneInSmoke ==
    view.shown =>
        ProbabilityOf(WithField(view.sample_data, "smoke", 0))
          <= ProbabilityOf(WithField(view.sample_data, "smoke", 1))

C6_Witness ==
    /\ view.shown
    /\ get(view.sample_data, "smoke") = 1
    /\ ProbabilityOf(WithField(view.sample_data, "smoke", 0))
         < view.current_val

\* C7 as stated: for the form's default record the probability is, within
\* 1e-6, 0.35 + 0.08*40/71 + 0.05*18.5/26 - 0.03 - 0.01, the age, bmi,
\* smoke and bl_hgb terms being the only non-zero contributions.
C7_Original ==
    (view.shown /\ view.sample_data = DefaultRecord) =>
        /\ Abs(view.current_val
                 - (35 * Cent + 8 * 40 * (SCALE \div 7100)
                      + 5 * 185 * (SCALE \div 26000)
                      - 3 * Cent - 1 * Cent)) <= Tol
        /\ {view.features[i] : i \in {j \in 1..11 : view.shap_vals[j] # 0}}
             = {"age", "bmi", "smoke", "bl_hgb"}

\* C7 as amended: for the form's default record the probability is, within
\* 1e-6, 0.35 + 0.08*40/71 + 0.05*18.5/26 - 0.04 - 0.03 - 0.01 (about
\* 0.3506), the age, bmi, PA, smoke and bl_hgb terms being the only
\* non-zero contributions.
C7_DefaultRecord ==
    (view.shown /\ view.sample_data = DefaultRecord) =>
        /\ Abs(view.current_val
                 - (35 * Cent + 8 * 40 * (SCALE \div 7100)
                      + 5 * 185 * (SCALE \div 26000)
                      - 4 * Cent - 3 * Cent - 1 * Cent)) <= Tol
        /\ view.current_val >= 350 * (SCALE \div 1000)
        /\ view.current_val <= 351 * (SCALE \div 1000)
        /\ {view.features[i] : i \in {j \in 1..11 : view.shap_vals[j] # 0}}
             = {"age", "bmi", "PA", "smoke", "bl_hgb"}

C7_Witness ==
    /\ view.shown
    /\ view.sample_data = DefaultRecord
    /\ widgets = form_defaults

\* C8 as stated: for the record with every risk-increasing field at its
\* maximum, base plus contributions exceeds the upper clamp and the
\* probability returned is clamped at (or near) 0.99.
C8_Original ==
    (view.shown /\ view.sample_data = MaxRiskRecord) =>
        /\ view.base_val + sum(view.shap_vals) > 99 * Cent
        /\ view.current_val >= 98 * Cent

\* C8 as amended: for the record with every risk-increasing field at its
\* maximum, base plus contributions is 0.35 + 0.08*110/71 + 0.06
\* + 0.05*40/26 + 0.08 + 0.03 + 0.02 + 0.01*30/9 + 0.04 - 0.01 (about
\* 0.8042), below the upper clamp, and the scorer returns that sum
\* unclamped (high tier).
C8_MaxRiskRecord ==
    (view.shown /\ view.sample_data = MaxRiskRecord) =>
        /\ view.base_val + sum(view.shap_vals) < 99 * Cent
        /\ view.current_val = view.base_val + sum(view.shap_vals)
        /\ Abs(view.current_val
                 - (35 * Cent + 8 * 110 * (SCALE \div 7100) + 6 * Cent
                      + 5 * 400 * (SCALE \div 26000) + 8 * Cent
                      + 3 * Cent + 2 * Cent
                      + 300 * (SCALE \div 9000) + 4 * Cent
                      - 1 * Cent)) <= Tol
        /\ view.current_val >= 804 * (SCALE \div 1000)
        /\ view.current_val <= 805 * (SCALE \div 1000)
        /\ view.risk_level = "high"

C8_Witness ==
    /\ view.shown
    /\ view.sample_data = MaxRiskRecord
    /\ view.risk_level = "high"

\* C9: bl_hgb does not influence the result: two records that differ only
\* in bl_hgb get the same contribution vector, with -0.01 at bl_hgb, the
\* same probability and the same tier.
C9_HgbIgnored ==
    view.shown =>
        \A h \in FieldValues("bl_hgb") :
          LET r == calculate_shap_values(
                     WithField(view.sample_data, "bl_hgb", h))
          IN  /\ r.shap_values = view.shap_vals
              /\ r.shap_values[index(r.features, "bl_hgb")] = 0 - Cent
              /\ r.current_value = view.current_val
              /\ get_risk_recommendation(r.current_value)[1] = view.risk_level

C9_Witness ==
    /\ view.shown
    /\ get(view.sample_data, "bl_hgb") = HGB_MIN
    /\ calculate_shap_values(
         WithField(view.sample_data, "bl_hgb", HGB_MAX)).current_value
         = view.current_val

\* C10: the renderer receives the base value and the contribution vector
\* the scorer returned, label i names the field whose formula produced
\* contribution i, and the chart's final value, base plus the sum of the
\* contributions, is the probability shown in the headline and used for
\* the tier: the clamp alters no in-domain value.
C10_RendererAgreesWithScorer ==
    view.shown =>
        LET r == calculate_shap_values(make_sample_data(widgets))
            img == view.shap_image
        IN  /\ img.base_value = r.base_value
            /\ img.shap_values = r.shap_values
            /\ Len(img.feature_names) = Len(r.features)
            /\ \A i \in 1..Len(r.features) :
                 /\ img.feature_names[i][1] = feature_display_names(r.features[i])
                 /\ img.feature_names[i][1] = r.feature_names[i]
                 /\ img.feature_names[i][2] = get(view.sample_data, r.features[i])
                 /\ img.shap_values[i] = Contribution(r.features[i], view.sample_data)
            /\ img.out_value = r.current_value
            /\ img.out_value = view.current_val
            /\ view.risk_level = get_risk_recommendation(img.out_value)[1]

C10_Witness ==
    /\ view.shown
    /\ view.risk_level = "medium"
    /\ view.shap_image.out_value = view.current_val
    /\ view.shap_image.out_value > view.shap_image.base_value

====
